---- MODULE Spec2Model ----
(***************************************************************************)
(* chsync: the schema synchronizer of a ClickHouse replica fleet.          *)
(*                                                                         *)
(* The model follows the Synchronizer of the source: main connects to      *)
(* every configured server, Check walks databases -> tables -> replicas,   *)
(* compares each replica's system.columns rows with the configured table   *)
(* and starts one goroutine per corrective statement; main then closes     *)
(* the connections and returns.                                            *)
(*                                                                         *)
(* A Go string is modelled as a sequence of atoms; the atom " " is a       *)
(* white space character, every other atom is a run of non-space           *)
(* characters.  String concatenation is \o.                                *)
(***************************************************************************)
EXTENDS Integers, Sequences, FiniteSets, Bags, TLC

\* Largest number of rows one catalog cursor delivers.
MaxRows == 2

Nil == "nil"

\* A Go error value: no error, or errors.New(text).
NilErr == <<>>
NewError(text) == <<text>>

(***************************************************************************)
(* Strings                                                                 *)
(***************************************************************************)
Str(a) == <<a>>

\* Length of the longest prefix of s without white space.
RECURSIVE TokenLen(_)
TokenLen(s) ==
    IF s = <<>> \/ Head(s) = " " THEN 0 ELSE 1 + TokenLen(Tail(s))

\* Variant that never splits: the whole string is the only field.
FieldsNoSplit(s) == IF s = <<>> THEN <<>> ELSE <<s>>

\* strings.Fields: the maximal runs of non-space characters of s, in order.
RECURSIVE Fields(_)
Fields(s) ==
    IF s = <<>> THEN <<>>
    ELSE IF Head(s) = " " THEN Fields(Tail(s))
    ELSE LET n == TokenLen(s)
         IN  <<SubSeq(s, 1, n)>> \o Fields(SubSeq(s, n + 1, Len(s)))

\* strings.Join(parts, sep)
RECURSIVE Join(_, _)
Join(parts, sep) ==
    IF parts = <<>> THEN <<>>
    ELSE IF Len(parts) = 1 THEN Head(parts)
    ELSE Head(parts) \o sep \o Join(Tail(parts), sep)

\* The orders in which a range loop may visit the keys of a Go map.
Orders(S) ==
    {o \in [1..Cardinality(S) -> S] : \A a, b \in 1..Cardinality(S) : o[a] = o[b] => a = b}

(***************************************************************************)
(* Configuration (config.go)                                               *)
(***************************************************************************)
UInt64 == Str("UInt64")
String == Str("String")
UInt64Default == <<"UInt64", " ", "DEFAULT", " ", "0">>
EmptyType == <<>>
BlankType == <<" ">>

NoColumns == <<>>
ColsId == [c \in {"id"} |-> UInt64]
ColsIdName == [c \in {"id", "name"} |-> IF c = "id" THEN UInt64 ELSE String]
ColsIdDefault == [c \in {"id"} |-> UInt64Default]
ColsIdEmpty == [c \in {"id"} |-> EmptyType]
ColsIdBlank == [c \in {"id"} |-> BlankType]

Table(view, mat, pop, cols, engine, asTable, asSelect) ==
    [View |-> view, Materialized |-> mat, Populate |-> pop, Columns |-> cols,
     Engine |-> engine, AsAnotherTable |-> asTable, AsSelect |-> asSelect]

\* len(table.Columns)
ColumnCount(table) == Cardinality(DOMAIN table.Columns)

Log == Str("Log")
SelectSrc == <<"SELECT", " ", "1">>

PlainTable == Table(FALSE, FALSE, FALSE, ColsId, Log, <<>>, <<>>)
AsTable == Table(FALSE, FALSE, FALSE, NoColumns, Log, Str("src"), <<>>)
BrokenView == Table(TRUE, FALSE, FALSE, NoColumns, <<>>, <<>>, <<>>)

TableDefs ==
    { Table(FALSE, FALSE, FALSE, ColsIdName, Log, <<>>, <<>>),
      PlainTable,
      Table(FALSE, FALSE, FALSE, ColsIdDefault, Log, <<>>, <<>>),
      Table(FALSE, FALSE, FALSE, ColsIdEmpty, Log, <<>>, <<>>),
      Table(FALSE, FALSE, FALSE, ColsIdBlank, Log, <<>>, <<>>),
      AsTable,
      Table(FALSE, FALSE, FALSE, NoColumns, Log, <<>>, <<>>),
      Table(TRUE, TRUE, TRUE, NoColumns, Log, <<>>, SelectSrc),
      Table(TRUE, FALSE, FALSE, ColsId, <<>>, <<>>, SelectSrc),
      BrokenView }

Servers == <<[Host |-> "h1"], [Host |-> "h2"]>>

Database(name, tables) == [Name |-> Str(name), Tables |-> tables]

\* One database holding one table of any shape.
SingleDbConfigs ==
    {[Servers |-> Servers, Databases |-> <<Database("d1", [n \in {"t"} |-> def])>>] :
        def \in TableDefs}

\* One database holding a view without as_select and a table created as another.
TwoTableConfigs ==
    {[Servers |-> Servers,
      Databases |-> <<Database("d1", [n \in {"t", "v"} |->
                                         IF n = "t" THEN AsTable ELSE BrokenView])>>]}

\* Two databases, each with a table t.
TwoDbConfigs ==
    {[Servers |-> Servers,
      Databases |-> <<Database("d1", [n \in {"t"} |-> AsTable]),
                      Database("d2", [n \in {"t"} |-> AsTable])>>]}

\* The rows a replica's system.columns may hold for one table.
LiveRows ==
    { [name |-> "id", type |-> UInt64], [name |-> "id", type |-> String],
      [name |-> "extra", type |-> String] }

(***************************************************************************)
(* State                                                                   *)
(***************************************************************************)
VARIABLES
    config,        \* Synchronizer.config
    fix,           \* Synchronizer.fix
    dropColumns,   \* Synchronizer.dropColumns
    connections,   \* Synchronizer.connections: the endpoint index of each pooled connection
    database,      \* Synchronizer.database
    pc,            \* position of the main goroutine
    panicValue,    \* the value main panicked with, or Nil
    attempts,      \* what sql.Open and Ping answered for each endpoint
    connectErr,    \* the error Connect returned
    closed,        \* the connections on which Close was called
    closeErr,      \* the error Close returned
    useDb,         \* per endpoint: the database its session has selected
    dbIdx,         \* Check: index of the database being checked
    tablesLeft,    \* CheckDatabase: tables of db.Tables not yet visited
    curTable,      \* CheckTable: name
    r,             \* CheckTable: the QueryResults, one per connection
    i,             \* CheckTable: index of the result being examined
    exists,        \* CheckTable: exists
    existColumns,  \* CheckTable: existColumns
    live,          \* CheckTable: the rows scanned from r[i] so far
    divs,          \* CheckTable: the divergences logged for r[i] so far
    tasks,         \* the goroutines started with go, in start order
    sent,          \* bag of the statements handed to an open connection
    taskFailed     \* some goroutine logged the failure of its statement

vars == <<config, fix, dropColumns, connections, database, pc, panicValue, attempts,
          connectErr, closed, closeErr, useDb, dbIdx, tablesLeft, curTable, r, i,
          exists, existColumns, live, divs, tasks, sent, taskFailed>>

Configs == SingleDbConfigs \cup TwoTableConfigs \cup TwoDbConfigs

Init ==
    /\ config \in Configs
    /\ fix \in BOOLEAN
    /\ dropColumns \in BOOLEAN
    /\ connections = <<>>
    /\ database = <<>>
    /\ pc = "start"
    /\ panicValue = Nil
    /\ attempts = <<>>
    /\ connectErr = NilErr
    /\ closed = {}
    /\ closeErr = NilErr
    /\ useDb = [k \in 1..Len(Servers) |-> <<>>]
    /\ dbIdx = 1
    /\ tablesLeft = {}
    /\ curTable = Nil
    /\ r = <<>>
    /\ i = 0
    /\ exists = FALSE
    /\ existColumns = {}
    /\ live = <<>>
    /\ divs = <<>>
    /\ tasks = <<>>
    /\ sent = EmptyBag
    /\ taskFailed = FALSE

(***************************************************************************)
(* Connect and Close                                                       *)
(***************************************************************************)
Outcomes == {"ok", "open", "ping"}

\* err.Error() of the failure of endpoint k at the given stage.
ErrorOf(stage, k) == <<stage, ":", config.Servers[k].Host>>

\* Variant that leaves the loop at the first endpoint that fails.
RECURSIVE ConnectLoopStops(_, _, _, _)
ConnectLoopStops(k, outcome, conns, errs) ==
    IF k > Len(config.Servers) THEN [connections |-> conns, errs |-> errs]
    ELSE IF outcome[k] = "ok"
         THEN ConnectLoopStops(k + 1, outcome, Append(conns, k), errs)
         ELSE [connections |-> conns, errs |-> Append(errs, ErrorOf(outcome[k], k))]

\* The loop of Connect from endpoint k on: the pool and the errors collected.
RECURSIVE ConnectLoop(_, _, _, _)
ConnectLoop(k, outcome, conns, errs) ==
    IF k > Len(config.Servers) THEN [connections |-> conns, errs |-> errs]
    ELSE IF outcome[k] = "ok"
         THEN ConnectLoop(k + 1, outcome, Append(conns, k), errs)
         ELSE ConnectLoop(k + 1, outcome, conns, Append(errs, ErrorOf(outcome[k], k)))

\* The text of the combined error: every message followed by a newline.
RECURSIVE ErrorText(_)
ErrorText(errs) ==
    IF errs = <<>> THEN <<>> ELSE Head(errs) \o <<"\n">> \o ErrorText(Tail(errs))

CombinedError(errs) == IF Len(errs) = 0 THEN NilErr ELSE NewError(ErrorText(errs))

Connect ==
    /\ pc = "start"
    /\ \E outcome \in [1..Len(config.Servers) -> Outcomes] :
          LET res == ConnectLoop(1, outcome, <<>>, <<>>)
          IN  /\ attempts' = outcome
              /\ connections' = res.connections
              /\ connectErr' = CombinedError(res.errs)
    /\ pc' = "connected"
    /\ UNCHANGED <<config, fix, dropColumns, database, panicValue, closed, closeErr,
                   useDb, dbIdx, tablesLeft, curTable, r, i, exists, existColumns,
                   live, divs, tasks, sent, taskFailed>>

\* Variants of the test of main: one that never sees an error, one that gives up
\* only when no endpoint connected.
ConnectFailedNever == FALSE
ConnectFailedOnEmptyPool == connectErr # NilErr /\ connections = <<>>

\* err != nil for the err that Connect returned to main.
ConnectFailed == connectErr # NilErr

\* main: panic(err) when Connect returned an error.
MainConnectPanic ==
    /\ pc = "connected"
    /\ ConnectFailed
    /\ pc' = "panic"
    /\ panicValue' = "connect"
    /\ UNCHANGED <<config, fix, dropColumns, connections, database, attempts,
                   connectErr, closed, closeErr, useDb, dbIdx, tablesLeft, curTable,
                   r, i, exists, existColumns, live, divs, tasks, sent, taskFailed>>

(***************************************************************************)
(* The corrective goroutines                                               *)
(***************************************************************************)
GoTask(fn, idx, name, table, columnName, columnType) ==
    [fn |-> fn, i |-> idx, name |-> name, table |-> table, columnName |-> columnName,
     columnType |-> columnType, db |-> database, pc |-> "go", logdb |-> <<>>]

\* The process is running: main has neither returned nor panicked.
Alive == pc \notin {"exit", "panic"}

\* typesSQL of CreateTable and CreateView, the columns visited in the given order.
TypesSQL(columns, order) ==
    [k \in 1..Len(order) |-> <<order[k], " ">> \o columns[order[k]]]

\* Variant without the AS clause.
CreateTableSQLNoAs(name, table, order) ==
    <<"CREATE", " ", "TABLE", " ", "IF", " ", "NOT", " ", "EXISTS", " ", name, " ">>
    \o (IF ColumnCount(table) # 0
        THEN <<"(">> \o Join(TypesSQL(table.Columns, order), <<",", " ">>) \o <<")", " ">>
        ELSE <<>>)
    \o <<"ENGINE", " ", "=", " ">> \o table.Engine

CreateTableSQL(name, table, order) ==
    <<"CREATE", " ", "TABLE", " ", "IF", " ", "NOT", " ", "EXISTS", " ", name, " ">>
    \o (IF ColumnCount(table) # 0
        THEN <<"(">> \o Join(TypesSQL(table.Columns, order), <<",", " ">>) \o <<")", " ">>
        ELSE IF table.AsAnotherTable # <<>>
             THEN <<"AS", " ">> \o table.AsAnotherTable \o <<" ">>
             ELSE <<>>)
    \o <<"ENGINE", " ", "=", " ">> \o table.Engine

CreateViewSQL(name, view, order) ==
    (IF view.Materialized
     THEN <<"CREATE", " ", "MATERIALIZED", " ", "VIEW", " ", "IF", " ", "NOT", " ", "EXISTS", " ">>
     ELSE <<"CREATE", " ", "VIEW", " ", "IF", " ", "NOT", " ", "EXISTS", " ">>)
    \o <<name, " ">>
    \o (IF ColumnCount(view) # 0
        THEN <<"(">> \o Join(TypesSQL(view.Columns, order), <<",", " ">>) \o <<")", " ">>
        ELSE <<>>)
    \o (IF view.Engine # <<>> THEN <<"ENGINE", " ", "=", " ">> \o view.Engine \o <<" ">> ELSE <<>>)
    \o (IF view.Populate THEN <<"POPULATE", " ">> ELSE <<>>)
    \o <<"AS", " ">> \o view.AsSelect

ModifyColumnSQL(name, columnName, columnType) ==
    <<"ALTER", " ", "TABLE", " ", name, " ", "MODIFY", " ", "COLUMN", " ", columnName, " ">>
    \o columnType

AddColumnSQL(name, columnName, columnType) ==
    <<"ALTER", " ", "TABLE", " ", name, " ", "ADD", " ", "COLUMN", " ", columnName, " ">>
    \o columnType

DropColumnSQL(name, columnName) ==
    <<"ALTER", " ", "TABLE", " ", name, " ", "DROP", " ", "COLUMN", " ", columnName>>

\* The statements a task may hand to conn.Exec (one per order of the column map).
TaskSQL(t) ==
    CASE t.fn = "CreateTable" ->
            {CreateTableSQL(t.name, t.table, o) : o \in Orders(DOMAIN t.table.Columns)}
      [] t.fn = "CreateView" ->
            {CreateViewSQL(t.name, t.table, o) : o \in Orders(DOMAIN t.table.Columns)}
      [] t.fn = "ModifyColumn" -> {ModifyColumnSQL(t.name, t.columnName, t.columnType)}
      [] t.fn = "AddColumn" -> {AddColumnSQL(t.name, t.columnName, t.columnType)}
      [] t.fn = "DropColumn" -> {DropColumnSQL(t.name, t.columnName)}

\* Variant without the as_select test.
SkipsStatementNever(t) == FALSE

\* CreateView returns before building a statement when as_select is empty.
SkipsStatement(t) == t.fn = "CreateView" /\ t.table.AsSelect = <<>>

\* A statement handed to a connection: by goroutine `by` (0: the main goroutine),
\* with its bound arguments, while the session has database db selected.
Statement(conn, by, sql, args) ==
    [conn |-> conn, by |-> by, sql |-> sql, args |-> args, db |-> useDb[conn]]

\* Variant that always takes the first connection of the pool.
TaskConnFirst(t) == connections[1]

\* conn := sync.connections[i]
TaskConn(t) == connections[t.i]

\* Variant that hands a failed statement to the connection a second time.
ExecStatementRetried(conn, by, sql, err) ==
    IF err
    THEN SetToBag({Statement(conn, by, sql, <<>>)}) (+) SetToBag({Statement(conn, by, sql, <<>>)})
    ELSE SetToBag({Statement(conn, by, sql, <<>>)})

\* _, err := conn.Exec(sql): the statements the one call hands to the connection.
ExecStatement(conn, by, sql, err) == SetToBag({Statement(conn, by, sql, <<>>)})

\* Variant in which logging a failure ends the process.
AfterLogFatal(err) == IF err THEN "panic" ELSE pc

\* Where main stands once the goroutine has logged its outcome with l.Error or l.Info
\* and returned: where it stood.
AfterLog(err) == pc

\* One corrective goroutine runs: it reads sync.connections[i] and the fields of its
\* logger, hands its statement to conn.Exec and logs the outcome.  CreateView with an
\* empty as_select logs an error and returns; Exec on a closed pool fails unsent.
TaskRun(n) ==
    /\ Alive
    /\ tasks[n].pc = "go"
    /\ tasks' = [tasks EXCEPT ![n].pc = "done", ![n].logdb = database]
    /\ LET conn == TaskConn(tasks[n])
       IN  IF SkipsStatement(tasks[n])
           THEN UNCHANGED <<sent, taskFailed>> /\ pc' = AfterLog(TRUE)
           ELSE IF conn \in closed
           THEN sent' = sent /\ taskFailed' = TRUE /\ pc' = AfterLog(TRUE)
           ELSE \E sql \in TaskSQL(tasks[n]), err \in BOOLEAN :
                  /\ sent' = sent (+) ExecStatement(conn, n, sql, err)
                  /\ taskFailed' = (taskFailed \/ err)
                  /\ pc' = AfterLog(err)
    /\ UNCHANGED <<config, fix, dropColumns, connections, database, panicValue,
                   attempts, connectErr, closed, closeErr, useDb, dbIdx, tablesLeft,
                   curTable, r, i, exists, existColumns, live, divs>>

(***************************************************************************)
(* Check, CheckDatabase                                                    *)
(***************************************************************************)
CurDb == config.Databases[dbIdx]
CurTableDef == CurDb.Tables[curTable]

UseSQL(db) == <<"USE", " ">> \o db.Name

\* Variant that looks at the first result only.
ExecHasErrorFirstOnly(results) == Len(results) > 0 /\ results[1] # "ok"

\* ExecResults.HasError
ExecHasError(results) == \E k \in 1..Len(results) : results[k] # "ok"

\* sync.Exec("USE <db>") on every pooled connection, in pool order.
CheckDatabaseExec ==
    /\ \/ pc = "check"
       \/ pc = "connected" /\ ~ConnectFailed /\ Len(config.Databases) > 0
    /\ \E results \in [1..Len(connections) -> {"ok", "err"}] :
          /\ r' = results
          /\ useDb' = [c \in DOMAIN useDb |->
                         IF \E k \in 1..Len(connections) :
                                connections[k] = c /\ results[k] = "ok"
                         THEN CurDb.Name ELSE useDb[c]]
    /\ sent' = sent (+) SetToBag({Statement(connections[k], 0, UseSQL(CurDb), <<>>) :
                                     k \in 1..Len(connections)})
    /\ pc' = "used"
    /\ UNCHANGED <<config, fix, dropColumns, connections, database, panicValue,
                   attempts, connectErr, closed, closeErr, dbIdx, tablesLeft, curTable,
                   i, exists, existColumns, live, divs, tasks, taskFailed>>

\* Where main continues once the tables in `left` remain in database d.
AfterTable(left, d) ==
    IF left # {} THEN [pc |-> "tables", dbIdx |-> d]
    ELSE IF d < Len(config.Databases) THEN [pc |-> "check", dbIdx |-> d + 1]
    ELSE [pc |-> "close", dbIdx |-> d]

\* CheckDatabase after Exec: panic on a failed USE, else record the database.
CheckDatabaseUse ==
    /\ pc = "used"
    /\ IF ExecHasError(r)
       THEN /\ pc' = "panic"
            /\ panicValue' = "use"
            /\ UNCHANGED <<database, tablesLeft, dbIdx>>
       ELSE /\ database' = CurDb.Name
            /\ tablesLeft' = DOMAIN CurDb.Tables
            /\ pc' = AfterTable(DOMAIN CurDb.Tables, dbIdx).pc
            /\ dbIdx' = AfterTable(DOMAIN CurDb.Tables, dbIdx).dbIdx
            /\ UNCHANGED panicValue
    /\ r' = <<>>
    /\ UNCHANGED <<config, fix, dropColumns, connections, attempts, connectErr, closed,
                   closeErr, useDb, curTable, i, exists, existColumns, live, divs,
                   tasks, sent, taskFailed>>

(***************************************************************************)
(* CheckTable                                                              *)
(***************************************************************************)
ObjectMissing == [kind |-> "ObjectMissing", column |-> "", want |-> <<>>, have |-> <<>>]
ColumnExcess(c) == [kind |-> "ColumnExcess", column |-> c, want |-> <<>>, have |-> <<>>]
TypeMismatch(c, want, have) ==
    [kind |-> "TypeMismatch", column |-> c, want |-> want, have |-> have]
ColumnMissing(c, want) ==
    [kind |-> "ColumnMissing", column |-> c, want |-> want, have |-> <<>>]

SelectSQL ==
    <<"SELECT", " ", "name,", " ", "type", " ", "FROM", " ", "system.columns", " ",
      "WHERE", " ", "database", " ", "=", " ", "?", " ", "AND", " ", "table", " ", "=",
      " ", "?">>

\* sync.Query on every pooled connection; the loop over r starts at its first result.
CheckTableQuery ==
    /\ pc = "tables"
    /\ \E name \in tablesLeft :
          /\ curTable' = name
          /\ tablesLeft' = tablesLeft \ {name}
          /\ sent' = sent (+) SetToBag({Statement(connections[k], 0, SelectSQL, <<database, Str(name)>>) :
                                           k \in 1..Len(connections)})
    /\ r' \in [1..Len(connections) -> {"nil", "rows"}]
    /\ IF Len(connections) = 0
       THEN /\ pc' = AfterTable(tablesLeft', dbIdx).pc
            /\ dbIdx' = AfterTable(tablesLeft', dbIdx).dbIdx
            /\ i' = 0
       ELSE /\ pc' = "rows"
            /\ i' = 1
            /\ UNCHANGED dbIdx
    /\ exists' = FALSE
    /\ existColumns' = {}
    /\ live' = <<>>
    /\ divs' = <<>>
    /\ UNCHANGED <<config, fix, dropColumns, connections, database, panicValue,
                   attempts, connectErr, closed, closeErr, useDb, tasks, taskFailed>>

\* Variant that compares the columns of every table.
SkipsColumnChecksNever(table) == FALSE

\* if len(table.Columns) == 0 { continue }
SkipsColumnChecks(table) == ColumnCount(table) = 0

\* Variants of the drop guard that read only one of the two flags.
DropAllowedNoFix == dropColumns
DropAllowedNoFlag == fix

\* sync.fix && sync.dropColumns
DropAllowed == fix /\ dropColumns

\* strings.Fields(needType)[0] panics when needType holds no token.
NeedTypePanics(needType) == Len(Fields(needType)) = 0
\* Variant that takes the last token.
NeedTypeLast(needType) == Fields(needType)[Len(Fields(needType))]

NeedType(needType) == Fields(needType)[1]

\* One iteration of the row loop for the scanned row: the divergences logged, the
\* goroutines started and whether the iteration panics.
RowBody(idx, name, table, row) ==
    IF SkipsColumnChecks(table)
    THEN [panic |-> FALSE, divs |-> <<>>, go |-> <<>>]
    ELSE IF row.name \notin DOMAIN table.Columns
    THEN [panic |-> FALSE, divs |-> <<ColumnExcess(row.name)>>,
          go |-> IF DropAllowed
                 THEN <<GoTask("DropColumn", idx, name, <<>>, row.name, <<>>)>>
                 ELSE <<>>]
    ELSE IF NeedTypePanics(table.Columns[row.name])
    THEN [panic |-> TRUE, divs |-> <<>>, go |-> <<>>]
    ELSE LET needType == NeedType(table.Columns[row.name])
         IN  IF needType # row.type
             THEN [panic |-> FALSE,
                   divs |-> <<TypeMismatch(row.name, needType, row.type)>>,
                   go |-> IF fix
                          THEN <<GoTask("ModifyColumn", idx, name, <<>>, row.name, needType)>>
                          ELSE <<>>]
             ELSE [panic |-> FALSE, divs |-> <<>>, go |-> <<>>]

\* e.Rows.Next() delivers one more row, which the loop body examines.
RowNext ==
    /\ pc = "rows"
    /\ r[i] = "rows"
    /\ Len(live) < MaxRows
    /\ \E row \in LiveRows :
          /\ row.name \notin existColumns
          /\ LET out == RowBody(i, curTable, CurTableDef, row)
             IN  /\ exists' = TRUE
                 /\ existColumns' = existColumns \cup {row.name}
                 /\ live' = Append(live, row)
                 /\ divs' = divs \o out.divs
                 /\ tasks' = tasks \o out.go
                 /\ IF out.panic
                    THEN pc' = "panic" /\ panicValue' = "index out of range"
                    ELSE UNCHANGED <<pc, panicValue>>
    /\ UNCHANGED <<config, fix, dropColumns, connections, database, attempts,
                   connectErr, closed, closeErr, useDb, dbIdx, tablesLeft, curTable, r,
                   i, sent, taskFailed>>

\* The range loop over table.Columns after the rows, visiting the columns in `order`.
RECURSIVE MissingLoop(_, _, _, _, _)
MissingLoop(idx, name, table, have, order) ==
    IF order = <<>> THEN [divs |-> <<>>, go |-> <<>>]
    ELSE LET rest == MissingLoop(idx, name, table, have, Tail(order))
             columnName == Head(order)
             needType == table.Columns[columnName]
         IN  IF columnName \in have THEN rest
             ELSE [divs |-> <<ColumnMissing(columnName, needType)>> \o rest.divs,
                   go |-> (IF fix
                           THEN <<GoTask("AddColumn", idx, name, <<>>, columnName, needType)>>
                           ELSE <<>>) \o rest.go]

\* Variant without the continue of the absent object: the column loop runs as well.
AfterRowsNoContinue(idx, name, table, exist, have, order) ==
    LET rest == MissingLoop(idx, name, table, have, order)
    IN  IF ~exist
        THEN [divs |-> <<ObjectMissing>> \o rest.divs,
              go |-> (IF fix
                      THEN IF table.View
                           THEN <<GoTask("CreateView", idx, name, table, "", <<>>)>>
                           ELSE <<GoTask("CreateTable", idx, name, table, "", <<>>)>>
                      ELSE <<>>) \o rest.go]
        ELSE rest

\* What follows the row loop of one result.
AfterRows(idx, name, table, exist, have, order) ==
    IF ~exist
    THEN [divs |-> <<ObjectMissing>>,
          go |-> IF fix
                 THEN IF table.View
                      THEN <<GoTask("CreateView", idx, name, table, "", <<>>)>>
                      ELSE <<GoTask("CreateTable", idx, name, table, "", <<>>)>>
                 ELSE <<>>]
    ELSE MissingLoop(idx, name, table, have, order)

\* Variant that logs what follows the row loop ahead of what the row loop logged.
RowsEndPrepends ==
    /\ pc = "rows"
    /\ \E order \in Orders(DOMAIN CurTableDef.Columns) :
          LET out == AfterRows(i, curTable, CurTableDef, exists, existColumns, order)
          IN  /\ divs' = out.divs \o divs
              /\ tasks' = tasks \o out.go
    /\ pc' = "checked"
    /\ UNCHANGED <<config, fix, dropColumns, connections, database, panicValue,
                   attempts, connectErr, closed, closeErr, useDb, dbIdx, tablesLeft,
                   curTable, r, i, exists, existColumns, live, sent, taskFailed>>

\* e.Rows is nil or Next() reports no further row: the rest of the loop body.
RowsEnd ==
    /\ pc = "rows"
    /\ \E order \in Orders(DOMAIN CurTableDef.Columns) :
          LET out == AfterRows(i, curTable, CurTableDef, exists, existColumns, order)
          IN  /\ divs' = divs \o out.divs
              /\ tasks' = tasks \o out.go
    /\ pc' = "checked"
    /\ UNCHANGED <<config, fix, dropColumns, connections, database, panicValue,
                   attempts, connectErr, closed, closeErr, useDb, dbIdx, tablesLeft,
                   curTable, r, i, exists, existColumns, live, sent, taskFailed>>

\* The loop over r moves to its next result, or CheckTable returns.
CheckTableLoop ==
    /\ pc = "checked"
    /\ IF i < Len(r)
       THEN /\ i' = i + 1
            /\ pc' = "rows"
            /\ UNCHANGED <<dbIdx, r, curTable>>
       ELSE /\ i' = 0
            /\ r' = <<>>
            /\ curTable' = Nil
            /\ pc' = AfterTable(tablesLeft, dbIdx).pc
            /\ dbIdx' = AfterTable(tablesLeft, dbIdx).dbIdx
    /\ exists' = FALSE
    /\ existColumns' = {}
    /\ live' = <<>>
    /\ divs' = <<>>
    /\ UNCHANGED <<config, fix, dropColumns, connections, database, panicValue,
                   attempts, connectErr, closed, closeErr, useDb, tablesLeft, tasks, sent, taskFailed>>

(***************************************************************************)
(* Close and the end of main                                               *)
(***************************************************************************)
\* The errors Close collects, in pool order.
RECURSIVE CloseLoop(_, _)
CloseLoop(k, outcome) ==
    IF k > Len(connections) THEN <<>>
    ELSE (IF outcome[k] = "ok" THEN <<>> ELSE <<ErrorOf("close", connections[k])>>)
         \o CloseLoop(k + 1, outcome)

\* Variant in which main reaches Close only once every goroutine has finished.
AtCloseWhenIdle ==
    /\ \/ pc = "close"
       \/ pc = "connected" /\ ~ConnectFailed /\ Len(config.Databases) = 0
    /\ \A n \in 1..Len(tasks) : tasks[n].pc = "done"

\* main is at synchronizer.Close(): Check has returned.
AtClose ==
    \/ pc = "close"
    \/ pc = "connected" /\ ~ConnectFailed /\ Len(config.Databases) = 0

Close ==
    /\ AtClose
    /\ \E outcome \in [1..Len(connections) -> {"ok", "err"}] :
          closeErr' = CombinedError(CloseLoop(1, outcome))
    /\ closed' = {connections[k] : k \in 1..Len(connections)}
    /\ pc' = "closed"
    /\ UNCHANGED <<config, fix, dropColumns, connections, database, panicValue,
                   attempts, connectErr, useDb, dbIdx, tablesLeft, curTable, r, i,
                   exists, existColumns, live, divs, tasks, sent, taskFailed>>

\* main after Close: panic(err), or return.
MainReturn ==
    /\ pc = "closed"
    /\ IF closeErr # NilErr
       THEN pc' = "panic" /\ panicValue' = "close"
       ELSE pc' = "exit" /\ UNCHANGED panicValue
    /\ UNCHANGED <<config, fix, dropColumns, connections, database, attempts,
                   connectErr, closed, closeErr, useDb, dbIdx, tablesLeft, curTable, r,
                   i, exists, existColumns, live, divs, tasks, sent, taskFailed>>

Next ==
    \/ Connect
    \/ MainConnectPanic
    \/ CheckDatabaseExec
    \/ CheckDatabaseUse
    \/ CheckTableQuery
    \/ RowNext
    \/ RowsEnd
    \/ CheckTableLoop
    \/ Close
    \/ MainReturn
    \/ \E n \in 1..Len(tasks) : TaskRun(n)

Spec == Init /\ [][Next]_vars

(***************************************************************************)
(* Properties                                                              *)
(***************************************************************************)
Statements == BagToSet(sent)

\* The first keywords of a statement.
Verb(st) == <<st.sql[1], st.sql[3]>>
IsUse(st) == st.sql[1] = "USE"
IsCatalogRead(st) == st.sql = SelectSQL
IsDrop(st) == st.sql[1] = "ALTER" /\ st.sql[7] = "DROP"
IsAdd(st) == st.sql[1] = "ALTER" /\ st.sql[7] = "ADD"
IsModify(st) == st.sql[1] = "ALTER" /\ st.sql[7] = "MODIFY"
IsCreateTable(st) == st.sql[1] = "CREATE" /\ st.sql[3] = "TABLE"
IsCreateView(st) == st.sql[1] = "CREATE" /\ st.sql[3] \in {"VIEW", "MATERIALIZED"}
IsCorrective(st) == st.sql[1] \in {"CREATE", "ALTER"}

\* The configured table a goroutine was started for.
TableOf(t) ==
    LET d == CHOOSE d \in 1..Len(config.Databases) : config.Databases[d].Name = t.db
    IN  config.Databases[d].Tables[t.name]

\* The goroutines started by the check of the current (database, table, replica).
CurTasks ==
    {n \in 1..Len(tasks) :
        tasks[n].i = i /\ tasks[n].name = curTable /\ tasks[n].db = database}

Kinds(ds) == {ds[k].kind : k \in 1..Len(ds)}
LiveNames == {live[k].name : k \in 1..Len(live)}
InCheck == pc \in {"rows", "checked"}

\* C1: with fix unset no goroutine is ever started and every statement that reaches
\* a replica is a USE or the catalog read of the main goroutine, whatever the
\* configuration, the catalog content and dropColumns.
C1_NoFixNoCorrective ==
    ~fix => /\ tasks = <<>>
            /\ \A st \in Statements :
                  st.by = 0 /\ (IsUse(st) \/ IsCatalogRead(st)) /\ ~IsCorrective(st)

\* C1 witness: fix unset, dropColumns set, an excess column and a type mismatch were
\* logged on the second replica after both catalog reads were sent.
C1_Witness ==
    /\ ~fix /\ dropColumns
    /\ pc = "checked" /\ i = 2
    /\ {"ColumnExcess", "TypeMismatch"} \subseteq Kinds(divs)
    /\ \E st \in Statements : IsCatalogRead(st) /\ st.conn = 2

\* C2: a DropColumn goroutine exists only with fix and dropColumns both set and only
\* for a live column outside a non-empty desired mapping; every DROP COLUMN statement
\* is the one of such a goroutine, on its replica.  During a check every live column
\* outside the non-empty mapping is logged as ColumnExcess, and it has a DropColumn
\* goroutine of this replica exactly when both flags are set.
C2_DropOnlyWhenAllowed ==
    /\ \A n \in 1..Len(tasks) :
          tasks[n].fn = "DropColumn" =>
             /\ fix /\ dropColumns
             /\ DOMAIN TableOf(tasks[n]).Columns # {}
             /\ tasks[n].columnName \notin DOMAIN TableOf(tasks[n]).Columns
    /\ \A st \in Statements :
          IsDrop(st) =>
             /\ st.by \in 1..Len(tasks)
             /\ tasks[st.by].fn = "DropColumn"
             /\ st.conn = connections[tasks[st.by].i]
             /\ st.sql[5] = tasks[st.by].name
             /\ st.sql[11] = tasks[st.by].columnName
    /\ InCheck /\ DOMAIN CurTableDef.Columns # {} =>
          \A c \in {"id", "name", "extra"} :
             LET excess == c \in LiveNames /\ c \notin DOMAIN CurTableDef.Columns
                 drops == {n \in CurTasks :
                              tasks[n].fn = "DropColumn" /\ tasks[n].columnName = c}
             IN  /\ excess <=> \E k \in 1..Len(divs) : divs[k] = ColumnExcess(c)
                 /\ Cardinality(drops) = IF excess /\ fix /\ dropColumns THEN 1 ELSE 0

\* C2 witness: both flags set, the excess column extra of the second replica was
\* dropped there and nothing was dropped on the first replica.
C2_Witness ==
    /\ fix /\ dropColumns
    /\ \E st \in Statements :
          IsDrop(st) /\ st.conn = 2 /\ st.sql[11] = "extra"
    /\ ~\E st \in Statements : IsDrop(st) /\ st.conn = 1
    /\ pc = "exit"

\* C3: when the cursor of a replica delivers no row, the check of that replica logs
\* exactly one divergence, ObjectMissing, whatever the desired table is.
C3_EmptyLiveObjectMissing ==
    pc = "checked" /\ r[i] = "rows" /\ live = <<>> => divs = <<ObjectMissing>>

\* C3 witness: a table with two declared columns, no row delivered.
C3_Witness ==
    /\ pc = "checked" /\ r[i] = "rows" /\ live = <<>>
    /\ ColumnCount(CurTableDef) = 2
    /\ divs = <<ObjectMissing>>


\* The first white-space-delimited token of a desired type, found without Fields:
\* the atoms after the leading white space up to the next white space.
RECURSIVE DropBlanks(_)
DropBlanks(s) == IF s # <<>> /\ Head(s) = " " THEN DropBlanks(Tail(s)) ELSE s
FirstToken(s) == SubSeq(DropBlanks(s), 1, TokenLen(DropBlanks(s)))
HasToken(s) == \E k \in 1..Len(s) : s[k] # " "

\* The live names equal the desired names and every live type is the first token of
\* its desired type.
LiveMatchesDesired ==
    /\ LiveNames = DOMAIN CurTableDef.Columns
    /\ \A k \in 1..Len(live) :
          /\ HasToken(CurTableDef.Columns[live[k].name])
          /\ live[k].type = FirstToken(CurTableDef.Columns[live[k].name])

\* C4 as claimed: whenever the live names and first-token types equal the desired
\* ones, the check logs no divergence and starts no goroutine.
C4_Original ==
    pc = "checked" /\ r[i] = "rows" /\ LiveMatchesDesired =>
        divs = <<>> /\ CurTasks = {}

\* C4 amended: the same for a cursor that delivered at least one row.  (With no row
\* delivered and no column declared the two sets are equal and ObjectMissing is logged.)
C4_MatchNoDivergence ==
    pc = "checked" /\ r[i] = "rows" /\ live # <<>> /\ LiveMatchesDesired =>
        divs = <<>> /\ CurTasks = {}

\* C4 witness: both flags set, desired id "UInt64 DEFAULT 0", live (id, UInt64): nothing
\* logged, nothing started.
C4_Witness ==
    /\ fix /\ dropColumns
    /\ pc = "checked" /\ r[i] = "rows"
    /\ CurTableDef.Columns = ColsIdDefault
    /\ live = <<[name |-> "id", type |-> UInt64]>>
    /\ divs = <<>> /\ CurTasks = {}

\* C5: for a table with an empty column mapping no ColumnExcess is logged, no
\* DropColumn goroutine is started and no DROP COLUMN statement reaches a replica.
C5_NoColumnsNoExcess ==
    /\ InCheck /\ DOMAIN CurTableDef.Columns = {} =>
          /\ "ColumnExcess" \notin Kinds(divs)
          /\ \A n \in CurTasks : tasks[n].fn # "DropColumn"
    /\ \A n \in 1..Len(tasks) :
          DOMAIN TableOf(tasks[n]).Columns = {} =>
             /\ tasks[n].fn \in {"CreateTable", "CreateView"}
             /\ \A st \in Statements : st.by = n => ~IsDrop(st)

\* C5 witness: both flags set, no column declared, the cursor delivered two rows.
C5_Witness ==
    /\ fix /\ dropColumns
    /\ pc = "checked" /\ DOMAIN CurTableDef.Columns = {}
    /\ LiveNames = {"id", "extra"}
    /\ divs = <<>>

\* C6: for a scanned live column that is declared with a type holding a token, a
\* TypeMismatch is logged exactly when the live type differs from the first token of
\* the desired type; it carries that token, and a ModifyColumn goroutine for that token
\* is started exactly when a mismatch is logged and fix is set.
C6_MismatchIffFirstTokenDiffers ==
    InCheck =>
      \A k \in 1..Len(live) :
         LET c == live[k].name
             want == CurTableDef.Columns[c]
             found == {d \in 1..Len(divs) :
                          divs[d].kind = "TypeMismatch" /\ divs[d].column = c}
             mods == {n \in CurTasks :
                         tasks[n].fn = "ModifyColumn" /\ tasks[n].columnName = c}
         IN  c \in DOMAIN CurTableDef.Columns /\ HasToken(want) =>
               /\ (found # {}) <=> (live[k].type # FirstToken(want))
               /\ \A d \in found :
                     divs[d] = TypeMismatch(c, FirstToken(want), live[k].type)
               /\ Cardinality(found) <= 1
               /\ Cardinality(mods) = IF found # {} /\ fix THEN 1 ELSE 0
               /\ \A n \in mods : tasks[n].columnType = FirstToken(want)

\* C6 witness: fix set, desired id "UInt64 DEFAULT 0": the first replica holds
\* (id, UInt64) and nothing was logged for it.
C6_Witness ==
    /\ fix
    /\ pc = "checked" /\ i = 1
    /\ CurTableDef.Columns = ColsIdDefault
    /\ [name |-> "id", type |-> UInt64] \in {live[k] : k \in 1..Len(live)}
    /\ "TypeMismatch" \notin Kinds(divs)
    /\ ~\E n \in 1..Len(tasks) : tasks[n].fn = "ModifyColumn"


\* The ADD COLUMN statement of Scenario A, written out.
AddStatementText(name, c, type) ==
    <<"ALTER", " ", "TABLE", " ", name, " ", "ADD", " ", "COLUMN", " ", c, " ">> \o type

NewTasks == {n \in 1..Len(tasks') : n > Len(tasks)}
NewStatements == {st \in BagToSet(sent') : CopiesIn(st, sent') > CopiesIn(st, sent)}

\* C7: every step starts goroutines only for the replica under examination, and an
\* AddColumn goroutine is started for replica i exactly for each desired column the
\* rows of replica i did not show, when fix is set; every statement of a goroutine
\* is handed once to the connection of the replica the goroutine was started for and
\* to no other, and an ADD COLUMN statement names that goroutine's table, column and
\* desired type.
C7_OneReplica ==
    [][ /\ \A n \in 1..Len(tasks) :
              /\ n <= Len(tasks')
              /\ tasks'[n].i = tasks[n].i
              /\ tasks'[n].fn = tasks[n].fn
        /\ \A n \in NewTasks :
              /\ tasks'[n].i = i /\ tasks'[n].name = curTable /\ tasks'[n].db = database
              /\ tasks'[n].fn = "AddColumn" =>
                    /\ fix /\ exists /\ pc = "rows" /\ pc' = "checked"
                    /\ tasks'[n].columnName \in DOMAIN CurTableDef.Columns \ existColumns
                    /\ tasks'[n].columnType = CurTableDef.Columns[tasks'[n].columnName]
        /\ pc = "rows" /\ pc' = "checked" /\ exists /\ fix =>
              \A c \in DOMAIN CurTableDef.Columns \ existColumns :
                 Cardinality({n \in NewTasks : tasks'[n].fn = "AddColumn"
                                                /\ tasks'[n].columnName = c}) = 1
        /\ \A st \in NewStatements :
              st.by # 0 =>
                 /\ st.conn = connections[tasks[st.by].i]
                 /\ CopiesIn(st, sent') = 1
                 /\ \A other \in BagToSet(sent') : other.by = st.by => other = st
                 /\ IsAdd(st) <=> tasks[st.by].fn = "AddColumn"
                 /\ IsAdd(st) =>
                       st.sql = AddStatementText(tasks[st.by].name, tasks[st.by].columnName,
                                                 tasks[st.by].columnType)
      ]_vars

\* C7 witness: Scenario A on the first replica only: ADD COLUMN name String reached
\* the first replica; the second replica, where the table was absent, received its
\* CREATE TABLE and no ADD COLUMN.
C7_Witness ==
    /\ fix
    /\ pc = "exit"
    /\ \E st \in Statements :
          /\ st.conn = 1
          /\ st.sql = AddStatementText("t", "name", String)
    /\ \E st \in Statements : st.conn = 2 /\ IsCreateTable(st)
    /\ \A st \in Statements : st.conn = 2 => ~IsAdd(st)


\* sub occurs in s at position p / somewhere.
At(sub, s, p) == p + Len(sub) - 1 <= Len(s) /\ SubSeq(s, p, p + Len(sub) - 1) = sub
Occurs(sub, s) == \E p \in 1..Len(s) : At(sub, s, p)

CreateTableHead(name) ==
    <<"CREATE", " ", "TABLE", " ", "IF", " ", "NOT", " ", "EXISTS", " ", name, " ">>
EngineTail(table) == <<"ENGINE", " ", "=", " ">> \o table.Engine

\* C8: with fix set, a cursor without rows starts exactly one goroutine for that
\* replica: CreateTable for a table, CreateView for a view, with the configured table.
\* Every statement of a CreateTable goroutine goes to that replica and reads CREATE
\* TABLE IF NOT EXISTS <name>, then the declared columns in parentheses, or AS
\* <otherTable> when no column is declared, then ENGINE = <engine>; a CREATE TABLE
\* statement never comes from a view.
C8_CreateMissingTable ==
    /\ pc = "checked" /\ r[i] = "rows" /\ live = <<>> /\ fix =>
          /\ Cardinality(CurTasks) = 1
          /\ \A n \in CurTasks :
                /\ tasks[n].table = CurTableDef
                /\ tasks[n].fn = IF CurTableDef.View THEN "CreateView" ELSE "CreateTable"
    /\ \A st \in Statements :
          /\ IsCreateTable(st) =>
                st.by # 0 /\ tasks[st.by].fn = "CreateTable" /\ ~tasks[st.by].table.View
          /\ st.by # 0 /\ tasks[st.by].fn = "CreateView" =>
                IsCreateView(st) /\ ~IsCreateTable(st)
          /\ st.by # 0 /\ tasks[st.by].fn = "CreateTable" =>
                LET t == tasks[st.by]
                    head == CreateTableHead(t.name)
                    tail == EngineTail(t.table)
                    mid == SubSeq(st.sql, Len(head) + 1, Len(st.sql) - Len(tail))
                IN  /\ st.conn = connections[t.i]
                    /\ At(head, st.sql, 1)
                    /\ At(tail, st.sql, Len(st.sql) - Len(tail) + 1)
                    /\ IF DOMAIN t.table.Columns # {}
                       THEN /\ Head(mid) = "("
                            /\ \A c \in DOMAIN t.table.Columns :
                                  Occurs(<<c, " ">> \o t.table.Columns[c], mid)
                       ELSE IF t.table.AsAnotherTable # <<>>
                       THEN mid = <<"AS", " ">> \o t.table.AsAnotherTable \o <<" ">>
                       ELSE mid = <<>>

\* C8 witness: the second replica received CREATE TABLE IF NOT EXISTS t AS src
\* ENGINE = Log for the table declared as another table.
C8_Witness ==
    \E st \in Statements :
       /\ st.conn = 2
       /\ st.sql = <<"CREATE", " ", "TABLE", " ", "IF", " ", "NOT", " ", "EXISTS", " ", "t",
                     " ", "AS", " ", "src", " ", "ENGINE", " ", "=", " ", "Log">>

\* A CreateView goroutine for a view without as_select finishes in this step.
BrokenViewRuns(n) ==
    /\ tasks[n].fn = "CreateView" /\ tasks[n].table.AsSelect = <<>>
    /\ tasks[n].pc = "go" /\ tasks'[n].pc = "done"

\* C9: the goroutine creating a view without as_select hands no statement to any
\* replica, and its step leaves the main goroutine where it is: the check of the
\* other replicas and tables goes on.
C9_BrokenViewSkipped ==
    [][ \A n \in 1..Len(tasks) :
           BrokenViewRuns(n) =>
              /\ sent' = sent
              /\ UNCHANGED <<pc, panicValue, dbIdx, tablesLeft, curTable, r, i, divs>>
              /\ \A st \in BagToSet(sent) : st.by # n
      ]_vars

\* C9 witness: the view v without as_select was absent on the first replica, its
\* goroutine ran and sent nothing, and the check of table t reached the second replica.
C9_Witness ==
    /\ pc = "checked" /\ curTable = "t" /\ i = 2
    /\ \E n \in 1..Len(tasks) :
          /\ tasks[n].fn = "CreateView" /\ tasks[n].table.AsSelect = <<>>
          /\ tasks[n].name = "v" /\ tasks[n].i = 1 /\ tasks[n].pc = "done"
          /\ \A st \in Statements : st.by # n

Failed == {k \in 1..Len(attempts) : attempts[k] # "ok"}
FailureLine(k) == <<attempts[k], ":", config.Servers[k].Host, "\n">>

\* C10: once Connect has returned, the pool holds exactly the endpoints that answered
\* ok, in endpoint order; the error is non-nil exactly when an endpoint failed, and
\* then its text consists of the failure lines of all failed endpoints in endpoint
\* order.
C10_ConnectAggregates ==
    pc # "start" =>
       /\ Len(attempts) = Len(config.Servers)
       /\ {connections[k] : k \in 1..Len(connections)} = (1..Len(attempts)) \ Failed
       /\ \A a, b \in 1..Len(connections) : a < b => connections[a] < connections[b]
       /\ (connectErr # NilErr) <=> (Failed # {})
       /\ Failed # {} =>
             LET text == connectErr[1]
             IN  /\ Len(text) = 4 * Cardinality(Failed)
                 /\ \A k \in Failed : Occurs(FailureLine(k), text)
                 /\ \A k1, k2 \in Failed :
                       k1 < k2 =>
                          \E p1, p2 \in 1..Len(text) :
                             /\ p1 < p2
                             /\ At(FailureLine(k1), text, p1)
                             /\ At(FailureLine(k2), text, p2)

\* C10 witness: the first endpoint failed its ping, the second was still tried and is
\* the only connection of the pool, and Connect returned an error.
C10_Witness ==
    /\ pc = "connected"
    /\ attempts = <<"ping", "ok">>
    /\ connections = <<2>>
    /\ connectErr = NewError(<<"ping", ":", "h1", "\n">>)

\* C11: once Connect has returned an error to main, nothing further reaches any
\* replica: no statement of any kind is sent (no USE, no catalog read, no corrective
\* statement), no goroutine is started, no connection is closed, and main goes from
\* the return of Connect straight to its panic.
C11_ConnectErrorIsFatal ==
    connectErr # NilErr =>
        /\ pc \in {"connected", "panic"}
        /\ pc = "panic" => panicValue = "connect"
        /\ sent = EmptyBag
        /\ tasks = <<>>
        /\ closed = {}
        /\ closeErr = NilErr

\* C11 witness: the first endpoint connected and the second failed its ping; main
\* has panicked with the pooled connection neither used nor closed.
C11_Witness ==
    /\ pc = "panic" /\ panicValue = "connect"
    /\ attempts = <<"ok", "ping">>
    /\ connections = <<1>>
    /\ sent = EmptyBag /\ closed = {}

\* The USE of the current database failed on at least one replica: the results are
\* back in CheckDatabase, or main has panicked with them.
UseFailure ==
    \/ pc = "used" /\ \E k \in 1..Len(r) : r[k] = "err"
    \/ panicValue = "use"

\* C12: from the moment a USE has failed on any replica, the main goroutine does
\* nothing but panic: no step starts a goroutine or sends a USE or a catalog read
\* (every statement still sent is the one of a goroutine started earlier), and the
\* only place main moves to is the panic with the USE results.
C12_UseFailureStops ==
    [][UseFailure =>
          /\ Len(tasks') = Len(tasks)
          /\ \A st \in NewStatements : st.by \in 1..Len(tasks) /\ IsCorrective(st)
          /\ pc' \in {"used", "panic"}
          /\ pc' = "panic" => panicValue' = "use"
          /\ UNCHANGED <<dbIdx, tablesLeft, curTable, database, divs, closed>>]_vars

\* C12 witness: the first database was checked and a goroutine started for it; the
\* USE of the second database succeeded on the first replica and failed on the
\* second, and main has panicked without reading the catalog for the second database.
C12_Witness ==
    /\ pc = "panic" /\ panicValue = "use"
    /\ dbIdx = 2
    /\ useDb[1] = Str("d2") /\ useDb[2] = Str("d1")
    /\ tasks # <<>>
    /\ \A st \in Statements : IsCatalogRead(st) => st.args[1] = Str("d1")

\* The steps of the main goroutine.
MainStep ==
    \/ Connect
    \/ MainConnectPanic
    \/ CheckDatabaseExec
    \/ CheckDatabaseUse
    \/ CheckTableQuery
    \/ RowNext
    \/ RowsEnd
    \/ CheckTableLoop
    \/ Close
    \/ MainReturn

\* C13: the main goroutine never waits for a goroutine it started: as long as main
\* has neither returned nor panicked, its next step is enabled whatever the started
\* goroutines have done; and once main has returned or panicked no goroutine runs
\* any more, so a goroutine that has not yet run never sends its statement.
C13_MainNeverWaits ==
    /\ Alive => ENABLED MainStep
    /\ ~Alive => ~ENABLED (\E n \in 1..Len(tasks) : TaskRun(n))

\* C13 witness: Check returned, Close closed both connections without error and main
\* returned, while a started goroutine has not run: its statement was never sent.
C13_Witness ==
    /\ pc = "exit"
    /\ closed = {1, 2} /\ closeErr = NilErr
    /\ \E n \in 1..Len(tasks) :
          /\ tasks[n].pc = "go"
          /\ \A st \in Statements : st.by # n

\* The statements goroutine n has handed to its connection.
SentBy(n) == {st \in Statements : st.by = n}

\* C14: no corrective action is attempted twice.  A goroutine that has not run has
\* sent nothing; one that has run has handed at most one statement to its
\* connection, once, whether it succeeded or failed; and no two goroutines were
\* started for the same database, table, replica and column (or object).
C14_AtMostOnce ==
    /\ \A n \in 1..Len(tasks) :
          /\ Cardinality(SentBy(n)) <= 1
          /\ \A st \in SentBy(n) : CopiesIn(st, sent) = 1 /\ tasks[n].pc = "done"
    /\ \A n, m \in 1..Len(tasks) :
          n # m => <<tasks[n].db, tasks[n].name, tasks[n].i, tasks[n].columnName>>
                   # <<tasks[m].db, tasks[m].name, tasks[m].i, tasks[m].columnName>>

\* C14 witness: main returned after at least two goroutines ran, one of them with a
\* failed statement, and each of them sent its one statement.
C14_Witness ==
    /\ pc = "exit" /\ taskFailed
    /\ Len(tasks) >= 2
    /\ \A n \in 1..Len(tasks) : tasks[n].pc = "done" /\ Cardinality(SentBy(n)) = 1

\* What CheckTable handed to goroutine n when it started it.
Dispatched(t) ==
    <<t.fn, t.i, t.name, t.table, t.columnName, t.columnType, t.db>>

\* C15: a step in which a corrective goroutine runs, whether its statement succeeds
\* or fails, leaves the main goroutine where it is and everything main reads as it
\* was: the position of main, the panic value, the loop state of Check, CheckDatabase
\* and CheckTable, the divergences logged, the connections, and what was handed to
\* every goroutine started so far; and it starts no goroutine.
C15_FailureStaysLocal ==
    [][(\E n \in 1..Len(tasks) : tasks[n].pc = "go" /\ tasks'[n].pc = "done") =>
          /\ UNCHANGED <<pc, panicValue, connections, database, closed, closeErr, useDb,
                         dbIdx, tablesLeft, curTable, r, i, exists, existColumns, live,
                         divs, fix, dropColumns, config>>
          /\ Len(tasks') = Len(tasks)
          /\ \A m \in 1..Len(tasks) : Dispatched(tasks'[m]) = Dispatched(tasks[m])]_vars

\* C15 witness: the only goroutine started so far, for the first replica, has run and
\* its statement failed; main is reading the rows of the second replica.
C15_Witness ==
    /\ taskFailed
    /\ pc = "rows" /\ i = 2 /\ r[2] = "rows"
    /\ Len(tasks) = 1 /\ tasks[1].pc = "done" /\ tasks[1].i = 1
    /\ SentBy(1) # {}

\* The positions in divs of the divergences of the given kinds.
DivsOf(kinds) == {k \in 1..Len(divs) : divs[k].kind \in kinds}

\* The position of a column in the live sequence.
LivePos(c) == CHOOSE k \in 1..Len(live) : live[k].name = c

\* An order of a desired mapping that is the same in every run, standing for the
\* order in which the configuration lists the columns.
InsertionOrder(columns) == CHOOSE o \in Orders(DOMAIN columns) : TRUE
InsertionPos(columns, c) ==
    CHOOSE k \in 1..Len(InsertionOrder(columns)) : InsertionOrder(columns)[k] = c

\* C16 as stated: in the divergences of one check every excess column comes before
\* every type mismatch and every type mismatch before every missing column; the
\* excess and the mismatch group are each in live order and the missing group is in
\* the insertion order of the desired mapping.
C16_Original ==
    InCheck =>
        /\ \A a \in DivsOf({"ColumnExcess"}), b \in DivsOf({"TypeMismatch"}) : a < b
        /\ \A a \in DivsOf({"TypeMismatch"}), b \in DivsOf({"ColumnMissing"}) : a < b
        /\ \A a \in DivsOf({"ColumnExcess"}), b \in DivsOf({"ColumnMissing"}) : a < b
        /\ \A kind \in {"ColumnExcess", "TypeMismatch"} :
              \A a, b \in DivsOf({kind}) :
                 a < b => LivePos(divs[a].column) < LivePos(divs[b].column)
        /\ \A a, b \in DivsOf({"ColumnMissing"}) :
              a < b => InsertionPos(CurTableDef.Columns, divs[a].column)
                       < InsertionPos(CurTableDef.Columns, divs[b].column)

\* C16 (amended): in the divergences of one check the excess columns and the type
\* mismatches come first, together in the order of the live rows and at most one per
\* live row; every missing column comes after all of them; and once the check of the
\* replica is complete for an existing table, the missing columns are the desired
\* columns absent from the live rows, one divergence each, in no fixed order.
C16_RowOrderThenMissing ==
    InCheck =>
        /\ \A a \in DivsOf({"ColumnExcess", "TypeMismatch"}) :
              /\ divs[a].column \in LiveNames
              /\ \A b \in DivsOf({"ColumnExcess", "TypeMismatch"}) :
                    a < b => LivePos(divs[a].column) < LivePos(divs[b].column)
              /\ \A b \in DivsOf({"ColumnMissing"}) : a < b
        /\ \A a, b \in DivsOf({"ColumnMissing"}) :
              a # b => divs[a].column # divs[b].column
        /\ pc = "checked" /\ exists =>
              {divs[k].column : k \in DivsOf({"ColumnMissing"})}
                 = DOMAIN CurTableDef.Columns \ LiveNames

\* C16 witness: the live rows (id String, extra String) against the desired columns
\* id UInt64 and name String: the mismatch of id was logged before the excess column
\* extra, and the missing column name after both.
C16_Witness ==
    /\ pc = "checked"
    /\ Len(divs) = 3
    /\ divs[1] = TypeMismatch("id", UInt64, String)
    /\ divs[2] = ColumnExcess("extra")
    /\ divs[3].kind = "ColumnMissing" /\ divs[3].column = "name"

\* C17 as stated: every statement of a corrective goroutine reaches its replica while
\* the session has the database selected for which the goroutine was started, and
\* the database a goroutine that has run put into its log context is that database.
C17_RunsInItsDatabase ==
    /\ \A st \in Statements : st.by # 0 => st.db = tasks[st.by].db
    /\ \A n \in 1..Len(tasks) : tasks[n].pc = "done" => tasks[n].logdb = tasks[n].db

\* C18 as stated: while a replica whose catalog read failed (no row set came back) is
\* being checked, the table is not reported as absent and no CreateTable or
\* CreateView goroutine is started for it.
C18_FailedReadIsNotAbsence ==
    (InCheck /\ r[i] = "nil") =>
        /\ "ObjectMissing" \notin Kinds(divs)
        /\ \A n \in CurTasks : tasks[n].fn \notin {"CreateTable", "CreateView"}

\* Check is running, or a corrective goroutine exists.
CheckOrTaskRunning ==
    \/ pc \in {"check", "used", "tables", "rows", "checked"}
    \/ tasks # <<>>

\* C19: whenever Check is running or a goroutine exists, the pool holds one
\* connection per configured endpoint and the connection at index k is the one to
\* endpoint k; hence every statement of a goroutine reached the endpoint whose index
\* (and host) the goroutine logs, and every catalog read of replica k went to
\* endpoint k.
C19_PoolMatchesEndpoints ==
    CheckOrTaskRunning =>
        /\ Len(connections) = Len(config.Servers)
        /\ \A k \in 1..Len(connections) : connections[k] = k
        /\ \A st \in Statements : st.by # 0 => st.conn = tasks[st.by].i

\* C19 witness: both endpoints connected; the rows of the second replica are being
\* read and a goroutine started for the second replica has sent its statement to the
\* second endpoint.
C19_Witness ==
    /\ pc = "rows" /\ i = 2
    /\ connections = <<1, 2>>
    /\ \E st \in Statements : st.by # 0 /\ st.conn = 2 /\ tasks[st.by].i = 2

\* C20 as stated: a live column that is present in the desired mapping never makes
\* the check abort, whatever its desired type string is.
C20_CompareNeverAborts ==
    \A k \in 1..Len(live) :
       live[k].name \in DOMAIN CurTableDef.Columns =>
          ~(pc = "panic" /\ panicValue = "index out of range")

====
